---- MODULE Spec2Model ----
(***************************************************************************)
(* Model of discord-twitter-webhooks, src/main.py: the stream listener     *)
(* (MyStreamListener.on_status), the pipeline (main) and its stages, and   *)
(* the embed composer / delivery (send_embed_webhook); and of              *)
(* src/discord_twitter_webhooks/main.py: the registration handler add_post *)
(* on the Reader store of settings.get_reader.                             *)
(*                                                                         *)
(* Text is a sequence of one-character strings, so that str.replace,       *)
(* html.unescape and the regular expressions of twitter_regex act on       *)
(* characters as they do in Python.                                        *)
(***************************************************************************)
EXTENDS Integers, Sequences, FiniteSets, TLC

VARIABLES
    pc,           \* position of the listener thread / which function was called
    tweet,        \* the post being handled
    arg,          \* text argument of a directly called function
    text,         \* the working text of main / the text a function returned
    media_links,  \* link_list returned by get_media_links_and_remove_url
    embed,        \* the Embed built by send_embed_webhook
    response,     \* outcome of requests.get on the collage service
    hook,         \* outcome of hook.send
    sent,         \* embeds handed to hook.send that were delivered or attempted
    escaped,      \* exception that left the called function / on_status
    log,          \* logger events of send_embed_webhook
    stages,       \* functions main has called for the current post, in order
    feeds,        \* the Reader's feeds: feed url -> value of the feed's "name" tag
    global_tags,  \* the Reader's global tags: key -> value
    request,      \* the form of the /add request handled last
    reply,        \* what add_post returned for it
    threads       \* the /add requests being handled concurrently

vars == <<pc, tweet, arg, text, media_links, embed, response, hook, sent,
          escaped, log, stages, feeds, global_tags, request, reply, threads>>

\* the state of the listener and the pipeline
stream_vars == <<pc, tweet, arg, text, media_links, embed, response, hook,
                 sent, escaped, log, stages>>

\* the state of the web application
web_vars == <<feeds, global_tags, request, reply, threads>>

-----------------------------------------------------------------------------
(* Bounds of the model *)

\* most media attachments of a post
MaxMedia == 3
\* most link entities of a post
MaxLinks == 2
\* most fragments a directly given text is built from
MaxFrags == 3

-----------------------------------------------------------------------------
(* Characters and strings *)

None == "None"

HTTPS == <<"h","t","t","p","s",":","/","/">>

Digits == <<"1","2","3","4","5","6","7","8","9">>

\* \w of the re module, on the characters the model uses
WordChars ==
    {"a","b","c","d","e","f","g","h","i","j","k","l","m","n","o","p","q","r",
     "s","t","u","v","w","x","y","z","A","B","C","D","E","F","G","H","I","J",
     "K","L","M","N","O","P","Q","R","S","T","U","V","W","X","Y","Z","_"}
        \cup {Digits[i] : i \in 1..9} \cup {"0"}

\* SpaceChars with the blank taken for a non-space character
SpaceCharsNewlineOnly == {"\n"}

\* \s of the re module, on the characters the model uses
SpaceChars == {" ", "\n"}

StartsWith(s, i, p) ==
    /\ i >= 1
    /\ i + Len(p) - 1 <= Len(s)
    /\ \A k \in 1..Len(p) : s[i + k - 1] = p[k]

\* `p in s` of Python
Contains(s, p) == \E i \in 1..(Len(s) + 1) : StartsWith(s, i, p)

Max(S) == CHOOSE x \in S : \A y \in S : y <= x

Min(S) == CHOOSE x \in S : \A y \in S : x <= y

\* the text from s[i] on
From(s, i) == SubSeq(s, i, Len(s))

\* the scan of str.replace from s[i]: copy up to the next occurrence of
\* `old`, put `new`, go on behind the occurrence
RECURSIVE ReplaceFrom(_, _, _, _)
ReplaceFrom(s, i, old, new) ==
    LET occ == {q \in i..Len(s) : StartsWith(s, q, old)}
    IN  IF occ = {} THEN From(s, i)
        ELSE SubSeq(s, i, Min(occ) - 1) \o new
                 \o ReplaceFrom(s, Min(occ) + Len(old), old, new)

RECURSIVE Interleave(_, _, _)
Interleave(s, i, new) ==
    IF i > Len(s) THEN new ELSE new \o <<s[i]>> \o Interleave(s, i + 1, new)

\* str.replace(old, new): every non-overlapping occurrence, left to right
Replace(s, old, new) ==
    IF old = <<>> THEN Interleave(s, 1, new) ELSE ReplaceFrom(s, 1, old, new)

-----------------------------------------------------------------------------
(* Results of a Python call: a value, or an exception that propagates *)

Ok(v) == [ok |-> TRUE, val |-> v, exc |-> None]

Raise(e) == [ok |-> FALSE, val |-> <<>>, exc |-> e]

-----------------------------------------------------------------------------
(* The stages of the pipeline (src/main.py) *)

(* A tweet is a record
     id, retweeted, in_reply_to_screen_name, text,
     has_extended_tweet, extended_tweet,
     has_entities, urls, has_extended_entities, media
   where has_x = FALSE stands for the attribute being absent from the Status
   object (AttributeError on access), and extended_tweet is the dict
     full_text, has_entities, urls, has_extended_entities, media
   where has_x = FALSE stands for the key being absent (KeyError on access). *)

\* get_text: the extended full text when the tweet has one, else its text
get_text(tw) ==
    IF tw.has_extended_tweet THEN tw.extended_tweet.full_text ELSE tw.text

\* MediaLoop putting each link in front of the list
RECURSIVE MediaLoopPrepend(_, _, _, _)
MediaLoopPrepend(media, i, link_list, txt) ==
    IF i > Len(media) THEN <<link_list, txt>>
    ELSE MediaLoopPrepend(media, i + 1,
                          <<media[i].media_url_https>> \o link_list,
                          Replace(txt, media[i].url, <<>>))

\* the for loop of get_media_links_and_remove_url over one media set
RECURSIVE MediaLoop(_, _, _, _)
MediaLoop(media, i, link_list, txt) ==
    IF i > Len(media) THEN <<link_list, txt>>
    ELSE MediaLoop(media, i + 1,
                   Append(link_list, media[i].media_url_https),
                   Replace(txt, media[i].url, <<>>))

\* get_media_links_and_remove_url: <<link_list, text>>; KeyError and
\* AttributeError are caught, so it always returns
get_media_links_and_remove_url(tw, txt) ==
    IF tw.has_extended_tweet
    THEN IF tw.extended_tweet.has_extended_entities
         THEN MediaLoop(tw.extended_tweet.media, 1, <<>>, txt)
         ELSE <<<<>>, txt>>
    ELSE IF tw.has_extended_entities
         THEN MediaLoop(tw.media, 1, <<>>, txt)
         ELSE <<<<>>, txt>>

\* the for loop of replace_tco_url_link_with_real_link over one url set
RECURSIVE LinkLoop(_, _, _)
LinkLoop(urls, i, txt) ==
    IF i > Len(urls) THEN txt
    ELSE LinkLoop(urls, i + 1, Replace(txt, urls[i].url, urls[i].expanded_url))

\* replace_tco_url_link_with_real_link reading the short-form entity set
\* of a long-form tweet
replace_tco_short_set_only(tw, txt) ==
    IF tw.has_extended_tweet /\ ~tw.extended_tweet.has_entities
    THEN Raise("KeyError")
    ELSE IF tw.has_entities
         THEN Ok(LinkLoop(tw.urls, 1, txt))
         ELSE Ok(txt)

\* replace_tco_url_link_with_real_link: only AttributeError is caught, a
\* missing key of the extended_tweet dict raises KeyError
replace_tco_url_link_with_real_link(tw, txt) ==
    IF tw.has_extended_tweet
    THEN IF tw.extended_tweet.has_entities
         THEN Ok(LinkLoop(tw.extended_tweet.urls, 1, txt))
         ELSE Raise("KeyError")
    ELSE IF tw.has_entities
         THEN Ok(LinkLoop(tw.urls, 1, txt))
         ELSE Ok(txt)

\* the character references html.unescape resolves, of those Twitter
\* escapes in a tweet's text: &amp; &lt; &gt;
Entities ==
    << [name |-> <<"a","m","p">>, char |-> "&"],
       [name |-> <<"l","t">>,     char |-> "<"],
       [name |-> <<"g","t">>,     char |-> ">"] >>

\* whether a character reference starts at s[i]
IsReference(s, i) ==
    /\ s[i] = "&"
    /\ \E e \in 1..Len(Entities) : StartsWith(s, i + 1, Entities[e].name)

\* the scan of html.unescape from s[i]; the ";" that ends a reference is
\* optional
RECURSIVE UnescapeFrom(_, _)
UnescapeFrom(s, i) ==
    LET refs == {q \in i..Len(s) : IsReference(s, q)}
    IN  IF refs = {} THEN From(s, i)
        ELSE LET q == Min(refs)
                 e == CHOOSE x \in 1..Len(Entities) :
                          StartsWith(s, q + 1, Entities[x].name)
                 after == q + 1 + Len(Entities[e].name)
                 semi == IF after <= Len(s) /\ s[after] = ";" THEN 1 ELSE 0
             IN  SubSeq(s, i, q - 1) \o <<Entities[e].char>>
                     \o UnescapeFrom(s, after + semi)

\* html.unescape: one pass, left to right
html_unescape(s) == UnescapeFrom(s, 1)

-----------------------------------------------------------------------------
(* twitter_regex: the five substitutions of regex_dict, in dict order *)

\* length of the longest run of characters outside `stop` starting at s[i]
RunOutside(s, i, stop) ==
    LET ends == {k \in i..Len(s) : s[k] \in stop}
    IN  IF ends = {} THEN Len(s) + 1 - i ELSE Min(ends) - i

\* length of the longest run of word characters (\w*) starting at s[i]
WordRun(s, i) ==
    LET ends == {k \in i..Len(s) : s[k] \notin WordChars}
    IN  IF ends = {} THEN Len(s) + 1 - i ELSE Min(ends) - i

\* re.sub of  @(\w*)  or  #(\w*)  by  [\g<0>](<base>\g<1>), from s[i]
RECURSIVE SubSigil(_, _, _, _)
SubSigil(s, i, sigil, base) ==
    LET hits == {q \in i..Len(s) : s[q] = sigil}
    IN  IF hits = {} THEN From(s, i)
        ELSE LET q == Min(hits)
                 n == WordRun(s, q + 1)
                 name == SubSeq(s, q + 1, q + n)
             IN  SubSeq(s, i, q - 1) \o <<"[", sigil>> \o name
                     \o <<"]", "(">> \o base \o name \o <<")">>
                     \o SubSigil(s, q + 1 + n, sigil, base)

\* the ")" that  (https://\S*)\)  ends at when it matches at s[i]: \S* is
\* greedy, so the last one of the run of non-space characters; 0: no match
UrlParen(s, i) ==
    LET lo == i + Len(HTTPS)
        hi == lo + RunOutside(s, lo, SpaceChars) - 1
        parens == {j \in lo..hi : s[j] = ")"}
    IN  IF StartsWith(s, i, HTTPS) /\ parens # {} THEN Max(parens) ELSE 0

\* re.sub of  (https://\S*)\)  by  <\g<1>>), from s[i]
RECURSIVE SubNoPreview(_, _)
SubNoPreview(s, i) ==
    LET hits == {q \in i..Len(s) : UrlParen(s, q) > 0}
    IN  IF hits = {} THEN From(s, i)
        ELSE LET q == Min(hits)
                 j == UrlParen(s, q)
             IN  SubSeq(s, i, q - 1) \o <<"<">> \o SubSeq(s, q, j - 1)
                     \o <<">", ")">> \o SubNoPreview(s, j + 1)

\* re.sub of  .*?(<head>)([^\s^\/]*)(/|)  by  [<label>\g<2>](<base>\g<2>),
\* from s[p]: the lazy .*? swallows what precedes the first head on the
\* line of s[p]; a line without a head is copied
RECURSIVE SubRef(_, _, _, _, _)
SubRef(s, p, heads, label, base) ==
    IF p > Len(s) THEN <<>>
    ELSE LET eol == p + RunOutside(s, p, {"\n"})
             starts == {q \in p..(eol - 1) :
                           \E h \in heads : StartsWith(s, q, h)}
         IN  IF starts = {}
             THEN SubSeq(s, p, IF eol > Len(s) THEN Len(s) ELSE eol)
                      \o SubRef(s, eol + 1, heads, label, base)
             ELSE LET q == Min(starts)
                      h == CHOOSE x \in heads : StartsWith(s, q, x)
                      lo == q + Len(h)
                      n == RunOutside(s, lo, SpaceChars \cup {"^", "/"})
                      name == SubSeq(s, lo, lo + n - 1)
                      after == lo + n
                      slash == IF after <= Len(s) /\ s[after] = "/"
                               THEN 1 ELSE 0
                  IN  <<"[">> \o label \o name \o <<"]", "(">> \o base
                          \o name \o <<")">>
                          \o SubRef(s, after + slash, heads, label, base)

TwitterCom == HTTPS \o <<"t","w","i","t","t","e","r",".","c","o","m","/">>

HashtagBase == TwitterCom \o <<"h","a","s","h","t","a","g","/">>

RedditCom == HTTPS \o <<"r","e","d","d","i","t",".","c","o","m","/">>

SlashR == <<"/","r","/">>

SlashU == <<"/","u","/">>

SlashUser == <<"/","u","s","e","r","/">>

\* @username -> link
SubMention(s) == SubSigil(s, 1, "@", TwitterCom)

\* #hashtag -> link
SubHashtag(s) == SubSigil(s, 1, "#", HashtagBase)

\* https://...) -> <https://...>)
SubUrl(s) == SubNoPreview(s, 1)

\* /r/subreddit -> link
SubSubreddit(s) == SubRef(s, 1, {SlashR}, SlashR, RedditCom \o <<"r","/">>)

\* /u/user, /user/user -> link
SubRedditUser(s) ==
    SubRef(s, 1, {SlashU, SlashUser}, SlashU, RedditCom \o <<"u","/">>)

twitter_regex(s) ==
    SubRedditUser(SubSubreddit(SubUrl(SubHashtag(SubMention(s)))))

-----------------------------------------------------------------------------
(* send_embed_webhook *)

NoResponse == [kind |-> "none", status_code |-> 0, url |-> None]

CollageUrl == "https://collage.example/1.png"

\* what requests.get on the collage service can do: answer with a status
\* (200 carries {"url": ...}), raise a network error, or never answer
CollageOutcomes ==
    {[kind |-> "answer", status_code |-> 200, url |-> CollageUrl],
     [kind |-> "answer", status_code |-> 404, url |-> None],
     [kind |-> "answer", status_code |-> 500, url |-> None],
     [kind |-> "ConnectionError", status_code |-> 0, url |-> None],
     [kind |-> "no_answer", status_code |-> 0, url |-> None]}

NoImage == [has |-> FALSE, url |-> None]

Image(u) == [has |-> TRUE, url |-> u]

\* CollageImage falling back to the last link instead of the first
CollageImageLastLink(link_list, resp) ==
    IF resp.status_code = 200
    THEN Image(resp.url)
    ELSE Image(link_list[Len(link_list)])

\* the image branch of send_embed_webhook for more than one link, once
\* the collage service has answered
CollageImage(link_list, resp) ==
    IF resp.status_code = 200 THEN Image(resp.url) ELSE Image(link_list[1])

\* the image branch of send_embed_webhook without a collage request
DirectImage(link_list) ==
    IF Len(link_list) = 1 THEN Image(link_list[1]) ELSE NoImage

NoEmbed == [description |-> <<>>, image |-> NoImage, built |-> FALSE]

-----------------------------------------------------------------------------
(* MyStreamListener.on_status and main *)

RTAt == <<"R","T"," ","@">>

\* Skipped without the test of in_reply_to_screen_name
SkippedRetweetsOnly(tw) ==
    \/ tw.retweeted
    \/ Contains(tw.text, RTAt)

\* the two early returns of on_status
Skipped(tw) ==
    \/ tw.retweeted
    \/ Contains(tw.text, RTAt)
    \/ tw.in_reply_to_screen_name # None

\* MainCalls with the links resolved before the media are collected
MainCallsLinksFirst ==
    << "get_text", "replace_tco_url_link_with_real_link", "html.unescape",
       "get_media_links_and_remove_url", "twitter_regex",
       "send_embed_webhook" >>

\* the calls main makes, in order (get_avatar_url, which does not touch the
\* text, is left out); send_embed_webhook composes and then delivers
MainCalls ==
    << "get_text", "get_media_links_and_remove_url", "html.unescape",
       "replace_tco_url_link_with_real_link", "twitter_regex",
       "send_embed_webhook" >>

\* the position of main after the call `c` returned
After(c) ==
    LET i == CHOOSE k \in 1..Len(MainCalls) : MainCalls[k] = c
    IN  IF i < Len(MainCalls) THEN MainCalls[i + 1] ELSE "hook.send"

-----------------------------------------------------------------------------
(* The posts the stream delivers *)

TCo == HTTPS \o <<"t",".","c","o","/">>

\* placeholder tokens are opaque strings minted by the provider: distinct,
\* of one length, and absent from any text the author wrote
LinkTok(i) == TCo \o <<"L", Digits[i]>>

MediaTok(i) == TCo \o <<"M", Digits[i]>>

SelfTok == TCo \o <<"S", "0">>

Expanded(i) == HTTPS \o <<"x", Digits[i], ".", "i", "o">>

Permalink == HTTPS \o <<"t", "w", ".", "i", "o">>

ImageUrls ==
    << "https://pbs.twimg.com/media/1.jpg", "https://pbs.twimg.com/media/2.jpg",
       "https://pbs.twimg.com/media/3.jpg", "https://pbs.twimg.com/media/4.jpg",
       "https://pbs.twimg.com/media/5.jpg" >>

\* n attachments; Twitter gives all attachments of a post one token
\* (shared), the spec's data model gives each its own
MediaList(n, shared) ==
    [i \in 1..n |-> [url |-> IF shared THEN MediaTok(1) ELSE MediaTok(i),
                     media_url_https |-> ImageUrls[i]]]

MediaLists == {MediaList(n, sh) : n \in 0..MaxMedia, sh \in BOOLEAN}

LinkList(n) == [i \in 1..n |-> [url |-> LinkTok(i), expanded_url |-> Expanded(i)]]

LinkLists == {LinkList(n) : n \in 0..MaxLinks}

Bodies ==
    { <<"h","i">>,
      <<"R","T"," ","@","b","o","b",":"," ","h","i">>,
      <<"y","o"," ","@","a","l"," ","#","t","g">>,
      <<"a"," ","&","a","m","p",";"," ","b">>,
      <<"s","e","e"," ","/","r","/","a","w","w">>,
      <<"(","s","e","e",")","\n","/","u","/","m","e">> }

RECURSIVE Dedup(_, _)
Dedup(seq, i) ==
    IF i > Len(seq) THEN <<>>
    ELSE IF \E k \in 1..(i - 1) : seq[k] = seq[i]
         THEN Dedup(seq, i + 1)
         ELSE <<seq[i]>> \o Dedup(seq, i + 1)

RECURSIVE Join(_, _)
Join(toks, i) ==
    IF i > Len(toks) THEN <<>> ELSE <<" ">> \o toks[i] \o Join(toks, i + 1)

\* the tokens a post declares with these link entities and attachments
Declared(links, media) ==
    Dedup([i \in 1..Len(links) |-> links[i].url]
              \o [i \in 1..Len(media) |-> media[i].url], 1)

\* the text of a post: what the author wrote, then each declared token once
FullText(body, links, media) == body \o Join(Declared(links, media), 1)

NoExtended ==
    [full_text |-> <<>>, has_entities |-> FALSE, urls |-> <<>>,
     has_extended_entities |-> FALSE, media |-> <<>>]

NoTweet ==
    [retweeted |-> FALSE, in_reply_to_screen_name |-> None, text |-> <<>>,
     has_extended_tweet |-> FALSE, extended_tweet |-> NoExtended,
     has_entities |-> FALSE, urls |-> <<>>,
     has_extended_entities |-> FALSE, media |-> <<>>]

\* what a post is made of: the author's text, the link entities, the
\* attachments, the two flags on_status reads, and whether an entity set is
\* present (an empty set may also be absent)
Shapes ==
    {sh \in [b : Bodies, l : LinkLists, m : MediaLists, rt : BOOLEAN,
             rp : {None, "bob"}, he : BOOLEAN, hm : BOOLEAN] :
        /\ sh.l # <<>> => sh.he
        /\ sh.m # <<>> => sh.hm}

\* a post of at most 140 characters: no extended_tweet
ShortPost(sh) ==
    [retweeted |-> sh.rt, in_reply_to_screen_name |-> sh.rp,
     text |-> FullText(sh.b, sh.l, sh.m),
     has_extended_tweet |-> FALSE, extended_tweet |-> NoExtended,
     has_entities |-> sh.he, urls |-> sh.l,
     has_extended_entities |-> sh.hm, media |-> sh.m]

\* a long-form post: text is the truncated text ending in a link to the post
\* itself, extended_tweet carries the full text and its entity sets
LongPost(sh) ==
    [retweeted |-> sh.rt, in_reply_to_screen_name |-> sh.rp,
     text |-> sh.b \o <<" ">> \o SelfTok,
     has_extended_tweet |-> TRUE,
     extended_tweet |->
         [full_text |-> FullText(sh.b, sh.l, sh.m),
          has_entities |-> sh.he, urls |-> sh.l,
          has_extended_entities |-> sh.hm, media |-> sh.m],
     has_entities |-> TRUE,
     urls |-> <<[url |-> SelfTok, expanded_url |-> Permalink]>>,
     has_extended_entities |-> FALSE, media |-> <<>>]

ShortPosts == {ShortPost(sh) : sh \in Shapes}

LongPosts == {LongPost(sh) : sh \in Shapes}

Posts == ShortPosts \cup LongPosts

-----------------------------------------------------------------------------
(* The web application before any /add request *)

\* a form field or a tag value that is a string
Given(v) == [given |-> TRUE, val |-> v]

\* request.form.get of a field the form does not carry; a tag value None
Absent == [given |-> FALSE, val |-> <<>>]

\* a Reader without feeds or tags
NoTags == <<>>

NoRequest ==
    [name |-> Absent, url |-> Absent, usernames |-> Absent,
     include_retweets |-> FALSE, include_replies |-> FALSE]

NoThreads == <<>>

WebIdle ==
    /\ feeds = NoTags
    /\ global_tags = NoTags
    /\ request = NoRequest
    /\ reply = "none"
    /\ threads = NoThreads

-----------------------------------------------------------------------------
(* The listener thread: one post at a time *)

Init ==
    /\ pc = "idle"
    /\ tweet = NoTweet
    /\ arg = <<>>
    /\ text = <<>>
    /\ media_links = <<>>
    /\ embed = NoEmbed
    /\ response = NoResponse
    /\ hook = "none"
    /\ sent = <<>>
    /\ escaped = None
    /\ log = {}
    /\ stages = <<>>
    /\ WebIdle

\* on_status(tweet): the two filters, then main(tweet)
OnStatus ==
    /\ pc = "idle"
    /\ \E p \in Posts :
        /\ tweet' = p
        /\ pc' = IF Skipped(p) THEN "done" ELSE MainCalls[1]
    /\ UNCHANGED web_vars
    /\ UNCHANGED <<arg, text, media_links, embed, response, hook, sent,
                   escaped, log, stages>>

\* on_status has returned: the listener waits for the next post. What the
\* stream does with an exception that left on_status is the library's
\* business and is not modelled: such a run ends here.
Return ==
    /\ pc = "done"
    /\ escaped = None
    /\ pc' = "idle"
    /\ tweet' = NoTweet
    /\ text' = <<>>
    /\ media_links' = <<>>
    /\ embed' = NoEmbed
    /\ response' = NoResponse
    /\ hook' = "none"
    /\ sent' = <<>>
    /\ log' = {}
    /\ stages' = <<>>
    /\ UNCHANGED web_vars
    /\ UNCHANGED <<arg, escaped>>

\* text = get_text(tweet)
GetText ==
    /\ pc = "get_text"
    /\ text' = get_text(tweet)
    /\ stages' = Append(stages, pc)
    /\ pc' = After(pc)
    /\ UNCHANGED web_vars
    /\ UNCHANGED <<tweet, arg, media_links, embed, response, hook, sent,
                   escaped, log>>

\* media_links, text_media_links = get_media_links_and_remove_url(tweet, text)
CollectMedia ==
    /\ pc = "get_media_links_and_remove_url"
    /\ LET r == get_media_links_and_remove_url(tweet, text)
       IN  /\ media_links' = r[1]
           /\ text' = r[2]
    /\ stages' = Append(stages, pc)
    /\ pc' = After(pc)
    /\ UNCHANGED web_vars
    /\ UNCHANGED <<tweet, arg, embed, response, hook, sent, escaped, log>>

\* unescaped_text = html.unescape(text_media_links)
Unescape ==
    /\ pc = "html.unescape"
    /\ text' = html_unescape(text)
    /\ stages' = Append(stages, pc)
    /\ pc' = After(pc)
    /\ UNCHANGED web_vars
    /\ UNCHANGED <<tweet, arg, media_links, embed, response, hook, sent,
                   escaped, log>>

\* text_url_links = replace_tco_url_link_with_real_link(tweet, unescaped_text);
\* an exception leaves main and on_status
ResolveLinks ==
    /\ pc = "replace_tco_url_link_with_real_link"
    /\ LET r == replace_tco_url_link_with_real_link(tweet, text)
       IN  /\ text' = IF r.ok THEN r.val ELSE text
           /\ escaped' = r.exc
           /\ pc' = IF r.ok THEN After(pc) ELSE "done"
    /\ stages' = Append(stages, pc)
    /\ UNCHANGED web_vars
    /\ UNCHANGED <<tweet, arg, media_links, embed, response, hook, sent, log>>

\* regex = twitter_regex(text_url_links)
LinkEntities ==
    /\ pc = "twitter_regex"
    /\ text' = twitter_regex(text)
    /\ stages' = Append(stages, pc)
    /\ pc' = After(pc)
    /\ UNCHANGED web_vars
    /\ UNCHANGED <<tweet, arg, media_links, embed, response, hook, sent,
                   escaped, log>>

\* send_embed_webhook up to the image: the Embed is built; with more than
\* one link the collage service is asked
Compose ==
    /\ pc = "send_embed_webhook"
    /\ embed' = [description |-> text, image |-> DirectImage(media_links),
                 built |-> TRUE]
    /\ pc' = IF Len(media_links) > 1 THEN "requests.get" ELSE "hook.send"
    /\ stages' = Append(stages, pc)
    /\ UNCHANGED web_vars
    /\ UNCHANGED <<tweet, arg, text, media_links, response, hook, sent,
                   escaped, log>>

\* requests.get(url=twitter_image_collage_maker, ...): no timeout is passed,
\* so a service that never answers blocks the thread for good; a network
\* error is not caught and leaves send_embed_webhook, main and on_status
Collage ==
    /\ pc = "requests.get"
    /\ \E r \in CollageOutcomes :
        /\ response' = r
        /\ embed' = IF r.kind = "answer"
                    THEN [embed EXCEPT !.image = CollageImage(media_links, r)]
                    ELSE embed
        /\ log' = IF r.kind = "answer" /\ r.status_code # 200
                  THEN log \cup {"Failed to get response"}
                  ELSE log
        /\ escaped' = IF r.kind = "ConnectionError" THEN r.kind ELSE escaped
        /\ pc' = CASE r.kind = "answer" -> "hook.send"
                   [] r.kind = "ConnectionError" -> "done"
                   [] OTHER -> "blocked"
    /\ UNCHANGED web_vars
    /\ UNCHANGED <<tweet, arg, text, media_links, hook, sent, stages>>

\* hook.send(embed=embed): dhooks raises when the endpoint cannot be reached
\* or answers with an error status; nothing catches it
Send ==
    /\ pc = "hook.send"
    /\ \E o \in {"ok", "failed"} :
        /\ hook' = o
        /\ log' = IF o = "ok" THEN log \cup {"Webhook posted."} ELSE log
        /\ escaped' = IF o = "ok" THEN escaped ELSE "HTTPError"
    /\ sent' = Append(sent, embed)
    /\ stages' = Append(stages, pc)
    /\ pc' = "done"
    /\ UNCHANGED web_vars
    /\ UNCHANGED <<tweet, arg, text, media_links, embed, response>>

Next ==
    \/ OnStatus
    \/ Return
    \/ GetText
    \/ CollectMedia
    \/ Unescape
    \/ ResolveLinks
    \/ LinkEntities
    \/ Compose
    \/ Collage
    \/ Send

Spec == Init /\ [][Next]_vars

-----------------------------------------------------------------------------
(* Properties of the listener and the pipeline, checked under Spec *)

IsPrefix(a, b) == Len(a) <= Len(b) /\ \A i \in 1..Len(a) : a[i] = b[i]

HasReplyTarget(tw) == tw.in_reply_to_screen_name # None

\* C1: a post flagged as a retweet, or one with a reply target, is never
\* handed to hook.send (main is not even entered), and on_status returns
\* without an exception.
C1_SkippedNeverSent ==
    (pc # "idle" /\ (tweet.retweeted \/ HasReplyTarget(tweet)))
        => /\ pc = "done"
           /\ sent = <<>>
           /\ stages = <<>>
           /\ escaped = None

C1_Witness ==
    /\ pc = "done"
    /\ HasReplyTarget(tweet)
    /\ ~tweet.retweeted
    /\ ~Contains(tweet.text, RTAt)
    /\ sent = <<>>

\* C2: once on_status is over for a post that is neither flagged as a
\* retweet nor a reply, exactly one message has been handed to hook.send.
C2_ExactlyOneMessage ==
    (pc \in {"done", "blocked"} /\ ~tweet.retweeted /\ ~HasReplyTarget(tweet))
        => Len(sent) = 1

\* C3: the image of the embed, by the number of media links: none for an
\* empty list, the link for one, and for two or more the collage URL when
\* the service answered 200 and the first link when it answered otherwise.
C3_EmbedImage ==
    embed.built =>
        /\ Len(media_links) = 0 => embed.image = NoImage
        /\ Len(media_links) = 1 => embed.image = Image(media_links[1])
        /\ (Len(media_links) >= 2 /\ response.kind = "answer") =>
              embed.image = IF response.status_code = 200
                            THEN Image(response.url)
                            ELSE Image(media_links[1])

C3_Witness ==
    /\ pc = "done"
    /\ hook = "ok"
    /\ Len(media_links) >= 3
    /\ response.kind = "answer"
    /\ response.status_code = 500
    /\ sent = <<embed>>
    /\ embed.image = Image(media_links[1])

\* C4: when the collage request fails with a network error or is never
\* answered, send_embed_webhook still goes on: no exception leaves it, the
\* thread is not blocked, and the embed carries the first link as its image.
C4_CollageFailureFallsBack ==
    (Len(media_links) >= 2 /\ response.kind \in {"ConnectionError", "no_answer"})
        => /\ escaped = None
           /\ pc # "blocked"
           /\ embed.image = Image(media_links[1])

\* C5: a failed delivery is logged and ends the post: no exception leaves
\* main and on_status.
C5_DeliveryFailureContained ==
    hook = "failed" =>
        /\ escaped = None
        /\ log \ {"Failed to get response", "Webhook posted."} # {}

\* the placeholder tokens a tweet declares, in any of its entity sets
DeclaredTokens(tw) ==
    {tw.urls[i].url : i \in 1..Len(tw.urls)}
        \cup {tw.media[i].url : i \in 1..Len(tw.media)}
        \cup {tw.extended_tweet.urls[i].url :
                 i \in 1..Len(tw.extended_tweet.urls)}
        \cup {tw.extended_tweet.media[i].url :
                 i \in 1..Len(tw.extended_tweet.media)}

\* C7: the description of a composed message holds none of the placeholder
\* tokens the post declared for its attachments or its link entities.
C7_NoPlaceholderLeft ==
    embed.built =>
        \A t \in DeclaredTokens(tweet) : ~Contains(embed.description, t)

C7_Witness ==
    /\ pc = "done"
    /\ hook = "ok"
    /\ tweet.has_extended_tweet
    /\ Len(tweet.extended_tweet.urls) >= 2
    /\ Len(tweet.extended_tweet.media) >= 2
    /\ Cardinality(DeclaredTokens(tweet)) >= 5
    /\ \A t \in DeclaredTokens(tweet) \ {SelfTok} :
           Contains(tweet.extended_tweet.full_text, t)
    /\ Contains(embed.description, Expanded(1))

-----------------------------------------------------------------------------
(* The stages called on their own, as the tests call them: SpecFn *)

\* the posts on_status hands to main
MainPosts == {p \in Posts : ~Skipped(p)}

FnBodies ==
    { <<"h","i">>,
      MediaTok(1) \o <<"x">> \o LinkTok(1) }

\* the text argument: any text, with or without the tokens of the tweet
FnTexts == {FullText(b, l, m) : b \in FnBodies, l \in LinkLists, m \in MediaLists}

InitFn ==
    /\ pc = "call"
    /\ tweet \in MainPosts
    /\ arg \in FnTexts
    /\ text = <<>>
    /\ media_links = <<>>
    /\ embed = NoEmbed
    /\ response = NoResponse
    /\ hook = "none"
    /\ sent = <<>>
    /\ escaped = None
    /\ log = {}
    /\ stages = <<>>
    /\ WebIdle

\* get_text(tweet)
CallGetText ==
    /\ pc = "call"
    /\ text' = get_text(tweet)
    /\ pc' = "get_text"
    /\ UNCHANGED web_vars
    /\ UNCHANGED <<tweet, arg, media_links, embed, response, hook, sent,
                   escaped, log, stages>>

\* get_media_links_and_remove_url(tweet, text)
CallGetMedia ==
    /\ pc = "call"
    /\ LET r == get_media_links_and_remove_url(tweet, arg)
       IN  /\ media_links' = r[1]
           /\ text' = r[2]
    /\ pc' = "get_media_links_and_remove_url"
    /\ UNCHANGED web_vars
    /\ UNCHANGED <<tweet, arg, embed, response, hook, sent, escaped, log,
                   stages>>

\* replace_tco_url_link_with_real_link(tweet, text)
CallReplaceTco ==
    /\ pc = "call"
    /\ LET r == replace_tco_url_link_with_real_link(tweet, arg)
       IN  /\ text' = r.val
           /\ escaped' = r.exc
    /\ pc' = "replace_tco_url_link_with_real_link"
    /\ UNCHANGED web_vars
    /\ UNCHANGED <<tweet, arg, media_links, embed, response, hook, sent, log,
                   stages>>

NextFn ==
    \/ CallGetText
    \/ CallGetMedia
    \/ CallReplaceTco

SpecFn == InitFn /\ [][NextFn]_vars

\* the media set get_media_links_and_remove_url reads: the extended one of
\* a long-form tweet, the short-form one otherwise; an absent set is empty
SelectedMedia(tw) ==
    IF tw.has_extended_tweet THEN tw.extended_tweet.media ELSE tw.media

\* the link entity set replace_tco_url_link_with_real_link reads
SelectedUrls(tw) ==
    IF tw.has_extended_tweet THEN tw.extended_tweet.urls ELSE tw.urls

MediaUrls(media) == [i \in 1..Len(media) |-> media[i].media_url_https]

\* occurrences of `old` that str.replace replaces in s, from s[i]
RECURSIVE CountFrom(_, _, _)
CountFrom(s, i, old) ==
    LET occ == {q \in i..Len(s) : StartsWith(s, q, old)}
    IN  IF occ = {} THEN 0 ELSE 1 + CountFrom(s, Min(occ) + Len(old), old)

\* placeholder tokens the loop over `media` removes from txt
RECURSIVE RemovedTokens(_, _, _)
RemovedTokens(media, i, txt) ==
    IF i > Len(media) THEN 0
    ELSE CountFrom(txt, 1, media[i].url)
             + RemovedTokens(media, i + 1, Replace(txt, media[i].url, <<>>))

\* C6 as stated: the media URLs come back in attachment order, none lost,
\* and as many URLs come back as placeholder tokens were removed.
C6_LengthIsTokensRemoved ==
    pc = "get_media_links_and_remove_url" =>
        /\ media_links = MediaUrls(SelectedMedia(tweet))
        /\ Len(media_links) = RemovedTokens(SelectedMedia(tweet), 1, arg)

\* C6 (amended): the media URLs of the set that is read come back in
\* attachment order, none lost, so as many as the set has attachments; the
\* text never grows.
C6_MediaInOrder ==
    pc = "get_media_links_and_remove_url" =>
        /\ media_links = MediaUrls(SelectedMedia(tweet))
        /\ Len(media_links) = Len(SelectedMedia(tweet))
        /\ Len(text) <= Len(arg)

C6_Witness ==
    /\ pc = "get_media_links_and_remove_url"
    /\ tweet.has_extended_tweet
    /\ Len(media_links) >= 3
    /\ media_links[1] = ImageUrls[1]
    /\ RemovedTokens(SelectedMedia(tweet), 1, arg) = 1
    /\ text # arg

\* C8: a missing optional field is never an error: get_text gives the short
\* text of a tweet without extended text, the media collector gives an empty
\* list and the text unchanged without media, the link resolver the text
\* unchanged without link entities, and none of the three raises.
C8_MissingFieldIsNoError ==
    /\ escaped = None
    /\ (pc = "get_text" /\ ~tweet.has_extended_tweet) => text = tweet.text
    /\ (pc = "get_media_links_and_remove_url" /\ SelectedMedia(tweet) = <<>>)
           => (media_links = <<>> /\ text = arg)
    /\ (pc = "replace_tco_url_link_with_real_link"
            /\ SelectedUrls(tweet) = <<>>) => text = arg

-----------------------------------------------------------------------------
(* twitter_regex called on its own: SpecRegex *)

Frags ==
    { <<"@">>, <<"#">>, SlashR, SlashU, SlashUser, HTTPS, <<")">>, <<" ">>,
      <<"\n">>, <<"a">>, <<"/">> }

\* the texts made of at most n fragments
RECURSIVE FragTexts(_)
FragTexts(n) ==
    IF n = 0 THEN {<<>>}
    ELSE LET shorter == FragTexts(n - 1)
         IN  shorter \cup {t \o f : t \in shorter, f \in Frags}

RegexTexts == FragTexts(MaxFrags)

InitRegex ==
    /\ pc = "call"
    /\ tweet = NoTweet
    /\ arg \in RegexTexts
    /\ text = <<>>
    /\ media_links = <<>>
    /\ embed = NoEmbed
    /\ response = NoResponse
    /\ hook = "none"
    /\ sent = <<>>
    /\ escaped = None
    /\ log = {}
    /\ stages = <<>>
    /\ WebIdle

\* twitter_regex(text)
CallTwitterRegex ==
    /\ pc = "call"
    /\ text' = twitter_regex(arg)
    /\ pc' = "twitter_regex"
    /\ UNCHANGED web_vars
    /\ UNCHANGED <<tweet, arg, media_links, embed, response, hook, sent,
                   escaped, log, stages>>

NextRegex == CallTwitterRegex

SpecRegex == InitRegex /\ [][NextRegex]_vars

\* none of "@", "#", "/r/", "/u/", "/user/" occurs in s
NoEntity(s) ==
    /\ ~Contains(s, <<"@">>)
    /\ ~Contains(s, <<"#">>)
    /\ ~Contains(s, SlashR)
    /\ ~Contains(s, SlashU)
    /\ ~Contains(s, SlashUser)

\* s holds "https://" followed, with no blank or line break between, by ")"
UrlBeforeParen(s) ==
    \E i \in 1..Len(s) : \E j \in (i + Len(HTTPS))..Len(s) :
        /\ StartsWith(s, i, HTTPS)
        /\ s[j] = ")"
        /\ \A k \in (i + Len(HTTPS))..(j - 1) : s[k] \notin {" ", "\n"}

\* C10 as stated: twitter_regex is the identity on a text with none of
\* "@", "#", "/r/", "/u/", "/user/".
C10_IdentityWithoutEntity ==
    (pc = "twitter_regex" /\ NoEntity(arg)) => text = arg

\* C10 (amended): twitter_regex is the identity on a text with none of
\* "@", "#", "/r/", "/u/", "/user/" and no "https://" followed, with no
\* white space between, by ")".
C10_IdentityWithoutEntityOrUrlParen ==
    (pc = "twitter_regex" /\ NoEntity(arg) /\ ~UrlBeforeParen(arg))
        => text = arg

C10_Witness ==
    /\ pc = "twitter_regex"
    /\ NoEntity(arg)
    /\ ~UrlBeforeParen(arg)
    /\ \E i \in 1..Len(arg) :
           StartsWith(arg, i, HTTPS \o <<" ", ")">>)
    /\ text = arg


-----------------------------------------------------------------------------
(* The registration handler add_post of the web application *)

\* most accounts the registration requests name
MaxAccounts == 2

\* str(v) and f"{v}" of a value that may be None
Str(v) == IF v.given THEN v.val ELSE <<"N","o","n","e">>

\* s.split(sep) for a separator of one character
RECURSIVE Split(_, _)
Split(s, sep) ==
    LET hits == {i \in 1..Len(s) : s[i] = sep}
    IN  IF hits = {}
        THEN <<s>>
        ELSE <<SubSeq(s, 1, Min(hits) - 1)>>
                 \o Split(From(s, Min(hits) + 1), sep)

\* f"https://nitter.lovinator.space/{username}/rss"
FeedUrl(username) ==
    HTTPS \o <<"n","i","t","t","e","r",".","l","o","v","i","n","a","t","o",
               "r",".","s","p","a","c","e","/">>
          \o username \o <<"/","r","s","s">>

\* f"{name}_webhook"
WebhookKey(name) == Str(name) \o <<"_","w","e","b","h","o","o","k">>

\* f"{name}_include_retweets"
RetweetsKey(name) ==
    Str(name) \o <<"_","i","n","c","l","u","d","e","_",
                   "r","e","t","w","e","e","t","s">>

\* f"{name}_include_replies"
RepliesKey(name) ==
    Str(name) \o <<"_","i","n","c","l","u","d","e","_",
                   "r","e","p","l","i","e","s">>

\* reader.set_tag(resource, key, value) on the tags of one resource
SetTag(tags, key, value) == (key :> value) @@ tags

\* NameTaken looking for a global tag that is the name itself
NameTakenExactKey(tags, name) ==
    \E key \in DOMAIN tags : key = Str(name)

\* the loop over reader.get_tags(()): some global tag starts with the name
\* followed by an underscore
NameTaken(tags, name) ==
    \E key \in DOMAIN tags : StartsWith(key, 1, Str(name) \o <<"_">>)

\* the three set_tag calls on the global resource
SetGlobalTags(tags, req) ==
    SetTag(SetTag(SetTag(tags, WebhookKey(req.name), req.url.val),
                  RetweetsKey(req.name), req.include_retweets),
           RepliesKey(req.name), req.include_replies)

\* the store add_post leaves and the message it returns
Answer(fs, tags, message) ==
    [feeds |-> fs, global_tags |-> tags, reply |-> message]

\* for username in usernames_value.split(" "), from the i-th username on
RECURSIVE UsernameLoop(_, _, _, _, _)
UsernameLoop(fs, tags, req, usernames, i) ==
    IF i > Len(usernames)
    THEN Answer(fs, tags, "Added new group")
    ELSE LET feed_url == FeedUrl(usernames[i])
         IN  IF feed_url \in DOMAIN fs
             THEN LET old_name == Str(fs[feed_url])
                      new_name == old_name \o <<";">> \o Str(req.name)
                  IN  Answer(SetTag(fs, feed_url, Given(new_name)),
                             SetGlobalTags(tags, req),
                             "Added to the existing feed")
             ELSE UsernameLoop(SetTag(fs, feed_url, req.name),
                               SetGlobalTags(tags, req),
                               req, usernames, i + 1)

\* add_post on the store (fs, tags) for the form req
add_post(fs, tags, req) ==
    IF req.name.given /\ Contains(req.name.val, <<";">>)
    THEN Answer(fs, tags, "Error, name cannot contain a semicolon")
    ELSE IF ~req.url.given \/ ~req.usernames.given
    THEN Answer(fs, tags, "Error: webhook or usernames was None")
    ELSE IF NameTaken(tags, req.name)
    THEN Answer(fs, tags, "Error, name already exists")
    ELSE UsernameLoop(fs, tags, req, Split(req.usernames.val, " "), 1)

Errors ==
    {"Error, name cannot contain a semicolon",
     "Error: webhook or usernames was None",
     "Error, name already exists"}

Successes == {"Added to the existing feed", "Added new group"}

-----------------------------------------------------------------------------
(* The forms sent to /add *)

GroupNames == {<<"a">>, <<"a","_","b">>, <<"a",";","b">>}

WebhookUrls == <<<<"w","1">>, <<"w","2">>>>

AccountPool == <<<<"u">>, <<"v">>, <<"w">>>>

Accounts == 1..Min({MaxAccounts, Len(AccountPool)})

\* the accounts chosen, in the order of the pool
RECURSIVE Chosen(_, _)
Chosen(S, i) ==
    IF i > Len(AccountPool) THEN <<>>
    ELSE (IF i \in S THEN <<AccountPool[i]>> ELSE <<>>) \o Chosen(S, i + 1)

\* " ".join(l)
RECURSIVE JoinBlank(_)
JoinBlank(l) ==
    IF Len(l) = 1 THEN l[1] ELSE l[1] \o <<" ">> \o JoinBlank(Tail(l))

UsernameLists == {JoinBlank(Chosen(S, 1)) : S \in (SUBSET Accounts) \ {{}}}

Optional(S) == {Absent} \cup {Given(v) : v \in S}

\* what the form carries for the delivery: no url and no box ticked, the
\* first url with retweets ticked, or the second url with replies ticked
Deliveries ==
    {[url |-> Absent, include_retweets |-> FALSE, include_replies |-> FALSE],
     [url |-> Given(WebhookUrls[1]), include_retweets |-> TRUE,
      include_replies |-> FALSE],
     [url |-> Given(WebhookUrls[2]), include_retweets |-> FALSE,
      include_replies |-> TRUE]}

Form(name, delivery, usernames) ==
    [name |-> name, url |-> delivery.url, usernames |-> usernames,
     include_retweets |-> delivery.include_retweets,
     include_replies |-> delivery.include_replies]

Forms ==
    {Form(n, d, u) : n \in Optional(GroupNames), d \in Deliveries,
                     u \in Optional(UsernameLists)}

-----------------------------------------------------------------------------
(* Registration requests handled one after the other *)

InitWeb ==
    /\ Init

\* POST /add: the handler runs from the form to its return statement
AddPost ==
    /\ reply = "none"
    /\ \E form \in Forms :
        LET answer == add_post(feeds, global_tags, form)
        IN  /\ feeds' = answer.feeds
            /\ global_tags' = answer.global_tags
            /\ request' = form
            /\ reply' = answer.reply
    /\ UNCHANGED threads
    /\ UNCHANGED stream_vars

\* the returned message goes out as the response; the application waits for
\* the next request
Respond ==
    /\ reply # "none"
    /\ request' = NoRequest
    /\ reply' = "none"
    /\ UNCHANGED <<feeds, global_tags, threads>>
    /\ UNCHANGED stream_vars

NextWeb == AddPost \/ Respond

SpecWeb == InitWeb /\ [][NextWeb]_vars

-----------------------------------------------------------------------------
(* Claims about add_post, requests handled one after the other *)

\* the name has been registered: its webhook is among the global tags
Registered(name, tags) == name.given /\ WebhookKey(name) \in DOMAIN tags

\* a registration request that is malformed on the store with these tags
Malformed(form, tags) ==
    \/ form.name.given /\ Contains(form.name.val, <<";">>)
    \/ Registered(form.name, tags)
    \/ ~form.name.given
    \/ ~form.url.given
    \/ ~form.usernames.given

\* C11: a malformed request (a name with ";", a name already registered, or
\* one of name, webhook url and usernames missing) is answered with an error
\* message and leaves the feeds, their name tags and the global tags as
\* they were.
C11_MalformedRejected ==
    [][(reply' # "none" /\ Malformed(request', global_tags))
           => /\ reply' \in Errors
              /\ feeds' = feeds
              /\ global_tags' = global_tags]_vars

\* C12: a global tag, once set, keeps its value whatever request comes
\* later: the webhook and the two include tags of a registered name are never
\* written again, so the name has one delivery target.
C12_TargetNeverChanged ==
    [][\A key \in DOMAIN global_tags :
           /\ key \in DOMAIN global_tags'
           /\ global_tags'[key] = global_tags[key]]_vars

\* a request for a registered name, asking for another webhook, has been
\* answered
C12_Witness ==
    /\ Registered(request.name, global_tags)
    /\ request.url.given
    /\ request.usernames.given
    /\ global_tags[WebhookKey(request.name)] # request.url.val
    /\ reply = "Error, name already exists"

\* the names joined with ";" in the value of a feed's name tag
NamesOf(tag) == {Split(Str(tag), ";")[i] : i \in 1..Len(Split(Str(tag), ";"))}

\* the name N is among the names of the feed for the username
FeedCarries(fs, username, N) ==
    /\ FeedUrl(username) \in DOMAIN fs
    /\ Str(N) \in NamesOf(fs[FeedUrl(username)])

\* the usernames of the list of a form
UsernamesOf(form) ==
    {Split(form.usernames.val, " ")[i] :
         i \in 1..Len(Split(form.usernames.val, " "))}

\* C13: after a successful request with name N, every username of its list
\* has a feed whose name tag contains N, whether the feed existed before
\* or was added by the request.
C13_EveryUsernameCarriesName ==
    reply \in Successes
        => \A username \in UsernamesOf(request) :
               FeedCarries(feeds, username, request.name)

\* a request with a name free of ";", a webhook url and usernames
WellFormed(form) ==
    /\ form.name.given
    /\ ~Contains(form.name.val, <<";">>)
    /\ form.url.given
    /\ form.usernames.given

\* C14: a well-formed request whose name is not registered is accepted; it
\* is not rejected as "name already exists" because a registered name begins
\* with the new name followed by an underscore.
C14_UnregisteredNameAccepted ==
    [][(/\ reply' # "none"
        /\ WellFormed(request')
        /\ ~Registered(request'.name, global_tags))
           => reply' \in Successes]_vars

-----------------------------------------------------------------------------
(* Two registration requests handled concurrently on the shared Reader *)

\* a feed that has been added and has no name tag yet: reader.get_tag
\* raises TagNotFoundError for it
NoNameTag == [given |-> FALSE, val |-> <<"TagNotFoundError">>]

Workers == {1, 2}

\* a request thread: its position in add_post and its local variables
Thread(form) ==
    [pc |-> "form", form |-> form, usernames |-> <<>>, i |-> 1,
     existing |-> FALSE, old_name |-> <<>>, reply |-> "none"]

\* the requests carry the same name and different webhook urls
InitRace ==
    /\ pc = "idle"
    /\ tweet = NoTweet
    /\ arg = <<>>
    /\ text = <<>>
    /\ media_links = <<>>
    /\ embed = NoEmbed
    /\ response = NoResponse
    /\ hook = "none"
    /\ sent = <<>>
    /\ escaped = None
    /\ log = {}
    /\ stages = <<>>
    /\ feeds = NoTags
    /\ global_tags = NoTags
    /\ request = NoRequest
    /\ reply = "none"
    /\ \E f \in [Workers -> Forms] :
        /\ f[1].name = f[2].name
        /\ f[1].usernames.given
        /\ f[2].usernames.given
        /\ f[1].url = Given(WebhookUrls[1])
        /\ f[2].url = Given(WebhookUrls[2])
        /\ threads = [t \in Workers |-> Thread(f[t])]

\* the thread goes on at position p
Goto(t, p) == [threads EXCEPT ![t].pc = p]

\* the thread returns the message
Returns(t, message) ==
    [threads EXCEPT ![t].pc = "done", ![t].reply = message]

\* the url of the feed the thread's loop is at
feed_url(t) == FeedUrl(threads[t].usernames[threads[t].i])

\* the form is read and tested for ";" and None
ReadForm(t) ==
    /\ threads[t].pc = "form"
    /\ LET form == threads[t].form
       IN  threads' =
               IF form.name.given /\ Contains(form.name.val, <<";">>)
               THEN Returns(t, "Error, name cannot contain a semicolon")
               ELSE IF ~form.url.given \/ ~form.usernames.given
               THEN Returns(t, "Error: webhook or usernames was None")
               ELSE Goto(t, "get_tags")
    /\ UNCHANGED <<feeds, global_tags, request, reply>>
    /\ UNCHANGED stream_vars

\* reader.get_tags(()) and the test of every key; the loop over the
\* usernames starts
GetTags(t) ==
    /\ threads[t].pc = "get_tags"
    /\ threads' =
           IF NameTaken(global_tags, threads[t].form.name)
           THEN Returns(t, "Error, name already exists")
           ELSE [threads EXCEPT
                     ![t].pc = "get_feeds",
                     ![t].usernames = Split(threads[t].form.usernames.val, " "),
                     ![t].i = 1]
    /\ UNCHANGED <<feeds, global_tags, request, reply>>
    /\ UNCHANGED stream_vars

\* reader.get_feeds() and the search for feed_url
GetFeeds(t) ==
    /\ threads[t].pc = "get_feeds"
    /\ threads' =
           IF feed_url(t) \in DOMAIN feeds
           THEN [threads EXCEPT ![t].pc = "get_tag", ![t].existing = TRUE]
           ELSE [threads EXCEPT ![t].pc = "add_feed", ![t].existing = FALSE]
    /\ UNCHANGED <<feeds, global_tags, request, reply>>
    /\ UNCHANGED stream_vars

\* old_name = str(reader.get_tag(feed, "name"))
GetTag(t) ==
    /\ threads[t].pc = "get_tag"
    /\ threads' =
           IF feeds[feed_url(t)] = NoNameTag
           THEN Returns(t, "TagNotFoundError")
           ELSE [threads EXCEPT ![t].pc = "set_tag_name",
                                ![t].old_name = Str(feeds[feed_url(t)])]
    /\ UNCHANGED <<feeds, global_tags, request, reply>>
    /\ UNCHANGED stream_vars

\* reader.add_feed(feed_url, exist_ok=True)
AddFeed(t) ==
    /\ threads[t].pc = "add_feed"
    /\ feeds' = IF feed_url(t) \in DOMAIN feeds
                THEN feeds
                ELSE SetTag(feeds, feed_url(t), NoNameTag)
    /\ threads' = Goto(t, "set_tag_name")
    /\ UNCHANGED <<global_tags, request, reply>>
    /\ UNCHANGED stream_vars

\* reader.set_tag(feed, "name", ...): the joined names for a feed that
\* existed, the name for a feed that was added
SetTagName(t) ==
    /\ threads[t].pc = "set_tag_name"
    /\ feeds' =
           SetTag(feeds, feed_url(t),
                  IF threads[t].existing
                  THEN Given(threads[t].old_name \o <<";">>
                                 \o Str(threads[t].form.name))
                  ELSE threads[t].form.name)
    /\ threads' = Goto(t, "set_tag_webhook")
    /\ UNCHANGED <<global_tags, request, reply>>
    /\ UNCHANGED stream_vars

\* reader.set_tag((), f"{name}_webhook", webhook_value)
SetTagWebhook(t) ==
    /\ threads[t].pc = "set_tag_webhook"
    /\ global_tags' = SetTag(global_tags, WebhookKey(threads[t].form.name),
                             threads[t].form.url.val)
    /\ threads' = Goto(t, "set_tag_include_retweets")
    /\ UNCHANGED <<feeds, request, reply>>
    /\ UNCHANGED stream_vars

\* reader.set_tag((), f"{name}_include_retweets", include_retweets)
SetTagRetweets(t) ==
    /\ threads[t].pc = "set_tag_include_retweets"
    /\ global_tags' = SetTag(global_tags, RetweetsKey(threads[t].form.name),
                             threads[t].form.include_retweets)
    /\ threads' = Goto(t, "set_tag_include_replies")
    /\ UNCHANGED <<feeds, request, reply>>
    /\ UNCHANGED stream_vars

\* reader.set_tag((), f"{name}_include_replies", include_replies); then the
\* return for a feed that existed, the next username or the return at the
\* end of the loop for a feed that was added
SetTagReplies(t) ==
    /\ threads[t].pc = "set_tag_include_replies"
    /\ global_tags' = SetTag(global_tags, RepliesKey(threads[t].form.name),
                             threads[t].form.include_replies)
    /\ threads' =
           IF threads[t].existing
           THEN Returns(t, "Added to the existing feed")
           ELSE IF threads[t].i = Len(threads[t].usernames)
           THEN Returns(t, "Added new group")
           ELSE [threads EXCEPT ![t].pc = "get_feeds",
                                ![t].i = threads[t].i + 1]
    /\ UNCHANGED <<feeds, request, reply>>
    /\ UNCHANGED stream_vars

NextRace ==
    \E t \in Workers :
        \/ ReadForm(t)
        \/ GetTags(t)
        \/ GetFeeds(t)
        \/ GetTag(t)
        \/ AddFeed(t)
        \/ SetTagName(t)
        \/ SetTagWebhook(t)
        \/ SetTagRetweets(t)
        \/ SetTagReplies(t)

SpecRace == InitRace /\ [][NextRace]_vars

\* the global tags of the name are those of the form
TargetOf(tags, form) ==
    /\ tags[WebhookKey(form.name)] = form.url.val
    /\ tags[RetweetsKey(form.name)] = form.include_retweets
    /\ tags[RepliesKey(form.name)] = form.include_replies

\* C15: of two concurrent requests with the same new name and different
\* webhook urls at most one is accepted, and when both have returned the
\* global tags of the name hold the values of one of the two requests.
C15_OneRequestWins ==
    (/\ \A t \in Workers : threads[t].pc = "done"
     /\ \A t \in Workers : WellFormed(threads[t].form))
        => /\ Cardinality({t \in Workers : threads[t].reply \in Successes}) <= 1
           /\ \E t \in Workers : TargetOf(global_tags, threads[t].form)

=============================================================================
